---------------------------- MODULE Spec2Model ----------------------------
(***************************************************************************)
(* RWA calculator (Bank Al-Maghrib rules): src/rwa_calculator.py.          *)
(* The session of the application that calls it: src/app.py.               *)
(*                                                                         *)
(* Representation.                                                         *)
(*  - A weight is written in percent: 0.20 is 20, 1.50 is 150.  The seven  *)
(*    literals of the source are 0, 20, 35, 50, 75, 100, 150.              *)
(*  - An RWA is written in hundredths: rwa = montant * ponderation.        *)
(*  - A Python value is a record [t, s, n]: t is its type, s its text when *)
(*    it is a str, n its value when it is an int, a float or a bool.  A    *)
(*    float is integer-valued here; the pandas missing value is "nan".     *)
(*  - A str is a TLA+ string.  The non-ASCII characters of the source are  *)
(*    written with one ASCII character each, used for nothing else:        *)
(*    @ for a-grave, $ for e-acute, % for e-grave, # for U+2264 (<=).      *)
(*  - A call returns [exc, w]: exc = "" and the value w, or the name of    *)
(*    the exception it raises.                                             *)
(***************************************************************************)
EXTENDS Integers, Sequences, FiniteSets, TLC

VARIABLES
    df,           \* the DataFrame of exposures handed to the calculator
    weightings,   \* what _calculate_individual_weighting returned for each row
    rwa_results,  \* what calculate_rwa(df) returned
    rating_weights,  \* self.rating_weights of the calculator
    pmae_weights,    \* self.pmae_weights of the calculator
    page,                 \* st.session_state.page of the application
    data,                 \* st.session_state.data
    validation_results,   \* st.session_state.validation_results
    session_rwa_results,  \* st.session_state.rwa_results
    shown                 \* the RWA results on the page rendered last

session == <<page, data, validation_results, session_rwa_results, shown>>

vars == <<df, weightings, rwa_results, rating_weights, pmae_weights, session>>

-----------------------------------------------------------------------------
(* Python values *)

Absent == [t |-> "absent", s |-> "", n |-> 0]
NaN == [t |-> "nan", s |-> "", n |-> 0]
None == [t |-> "none", s |-> "", n |-> 0]
VStr(x) == [t |-> "str", s |-> x, n |-> 0]
VInt(k) == [t |-> "int", s |-> "", n |-> k]
VFloat(k) == [t |-> "float", s |-> "", n |-> k]
VBool(b) == [t |-> "bool", s |-> "", n |-> IF b THEN 1 ELSE 0]

(* row.get(key, default): the default only when the key is not in the row *)
Get(r, key, default) == IF r[key].t = "absent" THEN default ELSE r[key]

(* bool(v), the test of `if v:` *)
Truthy(v) ==
    CASE v.t = "absent" -> FALSE
      [] v.t = "none" -> FALSE
      [] v.t = "nan" -> TRUE
      [] v.t = "str" -> v.s # ""
      [] OTHER -> v.n # 0

Digit(k) == SubSeq("0123456789", k + 1, k + 1)

RECURSIVE NatStr(_)
NatStr(k) == IF k < 10 THEN Digit(k) ELSE NatStr(k \div 10) \o Digit(k % 10)

(* str(v) *)
PyStr(v) ==
    CASE v.t = "str" -> v.s
      [] v.t = "nan" -> "nan"
      [] v.t = "none" -> "None"
      [] v.t = "bool" -> (IF v.n = 1 THEN "True" ELSE "False")
      [] v.t = "int" -> NatStr(v.n)
      [] v.t = "float" -> NatStr(v.n) \o ".0"
      [] OTHER -> ""

-----------------------------------------------------------------------------
(* str methods *)

UpperLetters == "ABCDEFGHIJKLMNOPQRSTUVWXYZ"
LowerLetters == "abcdefghijklmnopqrstuvwxyz"

(* the position of character c in s, 0 when it is not there *)
IndexOf(c, s) ==
    LET hits == {i \in 1..Len(s) : SubSeq(s, i, i) = c}
    IN  IF hits = {} THEN 0 ELSE CHOOSE i \in hits : TRUE

(* the capital of each small letter and the small letter of each capital *)
ToUpper ==
    [c \in {SubSeq(LowerLetters, i, i) : i \in 1..26} |->
        SubSeq(UpperLetters, IndexOf(c, LowerLetters), IndexOf(c, LowerLetters))]
ToLower ==
    [c \in {SubSeq(UpperLetters, i, i) : i \in 1..26} |->
        SubSeq(LowerLetters, IndexOf(c, UpperLetters), IndexOf(c, UpperLetters))]

UpperChar(c) == IF c \in DOMAIN ToUpper THEN ToUpper[c] ELSE c

LowerChar(c) == IF c \in DOMAIN ToLower THEN ToLower[c] ELSE c

RECURSIVE Upper(_)
Upper(s) ==
    IF s = "" THEN "" ELSE UpperChar(SubSeq(s, 1, 1)) \o Upper(SubSeq(s, 2, Len(s)))

RECURSIVE Lower(_)
Lower(s) ==
    IF s = "" THEN "" ELSE LowerChar(SubSeq(s, 1, 1)) \o Lower(SubSeq(s, 2, Len(s)))

IsSpace(c) == c = " "

RECURSIVE LStrip(_)
LStrip(s) ==
    IF s # "" /\ IsSpace(SubSeq(s, 1, 1)) THEN LStrip(SubSeq(s, 2, Len(s))) ELSE s

RECURSIVE RStrip(_)
RStrip(s) ==
    IF s # "" /\ IsSpace(SubSeq(s, Len(s), Len(s)))
    THEN RStrip(SubSeq(s, 1, Len(s) - 1))
    ELSE s

Strip(s) == RStrip(LStrip(s))

(* sub in s *)
In(sub, s) ==
    \E i \in 1..(Len(s) - Len(sub) + 1) : SubSeq(s, i, i + Len(sub) - 1) = sub

(* any(x in s for x in list) *)
AnyIn(list, s) == \E k \in 1..Len(list) : In(list[k], s)

IsDigits(s) == s # "" /\ \A i \in 1..Len(s) : IndexOf(SubSeq(s, i, i), "0123456789") # 0

RECURSIVE DigitsVal(_)
DigitsVal(s) ==
    IF s = "" THEN 0
    ELSE 10 * DigitsVal(SubSeq(s, 1, Len(s) - 1))
         + (IndexOf(SubSeq(s, Len(s), Len(s)), "0123456789") - 1)

(* float(v): [exc, nan, n].  A str is stripped and parsed: digits, or "nan"
   in any case; every other text of the inputs here raises ValueError. *)
PyFloat(v) ==
    CASE v.t \in {"int", "float", "bool"} -> [exc |-> "", nan |-> FALSE, n |-> v.n]
      [] v.t = "nan" -> [exc |-> "", nan |-> TRUE, n |-> 0]
      [] v.t = "str" ->
            (IF IsDigits(Strip(v.s))
             THEN [exc |-> "", nan |-> FALSE, n |-> DigitsVal(Strip(v.s))]
             ELSE IF Lower(Strip(v.s)) = "nan"
             THEN [exc |-> "", nan |-> TRUE, n |-> 0]
             ELSE [exc |-> "ValueError", nan |-> FALSE, n |-> 0])
      [] OTHER -> [exc |-> "TypeError", nan |-> FALSE, n |-> 0]

-----------------------------------------------------------------------------
(* Lookup tables: each dict as the sequence of its items, in insertion order *)

_initialize_rating_weights ==
    [general |->
        << <<"AAA @ AA-", 20>>, <<"A+ @ A-", 50>>, <<"BBB+ @ BBB-", 50>>,
           <<"BB+ @ BB-", 100>>, <<"B+ @ B-", 100>>, <<"Inf$rieure @ B-", 150>>,
           <<"Pas de notation", 50>> >>,
     credit_short_term |->
        << <<"A-1", 20>>, <<"A-2", 50>>, <<"A-3", 100>>, <<"Inf$rieure @ A-3", 150>> >>,
     enterprise_short_term |->
        << <<"A-1", 20>>, <<"A-2", 50>>, <<"A-3", 100>>, <<"Inf$rieure @ A-3", 150>> >>]

_initialize_pmae_weights ==
    << <<"0", 0>>, <<"1", 0>>, <<"2", 20>>, <<"3", 50>>,
       <<"4", 100>>, <<"5", 100>>, <<"6", 100>>, <<"7", 150>> >>

(* dict.get(key, default) on a table of items *)
DictGet(table, key, default) ==
    LET hits == {k \in 1..Len(table) : table[k][1] = key}
    IN  IF hits = {} THEN default ELSE table[CHOOSE k \in hits : TRUE][2]

Ret(w) == [exc |-> "", w |-> w]
Raise(e) == [exc |-> e, w |-> 0]

-----------------------------------------------------------------------------
(* _get_rating_weighting(rating, category) *)

RatingFallback(rating) ==
    IF In("AAA", rating) \/ In("AA", rating) THEN 20
    ELSE IF In("A+", rating) \/ In("A", rating) \/ In("A-", rating) THEN 50
    ELSE IF In("BBB", rating) THEN 50
    ELSE IF In("BB", rating) THEN 100
    ELSE IF In("B+", rating) \/ In("B", rating) \/ In("B-", rating) THEN 100
    ELSE IF In("CCC", rating) \/ In("CC", rating) \/ In("C", rating) \/ In("D", rating)
    THEN 150
    ELSE 50

_get_rating_weighting(rating0, category) ==
    LET rating == Strip(Upper(rating0))
        table == IF category = "credit_short_term"
                 THEN rating_weights.credit_short_term
                 ELSE IF category = "enterprise_short_term"
                 THEN rating_weights.enterprise_short_term
                 ELSE rating_weights.general
        hits == {k \in 1..Len(table) : In(rating, table[k][1]) \/ rating = table[k][1]}
    IN  IF hits # {}
        THEN table[CHOOSE k \in hits : \A j \in hits : k <= j][2]
        ELSE RatingFallback(rating)

-----------------------------------------------------------------------------
(* Segment resolvers *)

SovereignOrgs ==
    <<"bis", "banque des r%glements internationaux", "fonds mon$taire international",
      "fmi", "banque centrale europ$enne", "bce", "commission europ$enne">>

DomesticSovereign_no_bam(sous_segment, monnaie) ==
    In("maroc", sous_segment) /\ monnaie = "MAD"

(* line 244: the Moroccan State and Bank Al-Maghrib, in dirhams *)
DomesticSovereign(sous_segment, monnaie) ==
    /\ In("maroc", sous_segment) \/ In("bam", sous_segment)
       \/ In("bank al-maghrib", sous_segment)
    /\ monnaie = "MAD"

_calculate_sovereign_weighting_pmae_first(r) ==
    LET sous_segment == Lower(PyStr(Get(r, "sous_segment", VStr(""))))
        monnaie == Upper(PyStr(Get(r, "monnaie", VStr(""))))
        note_externe == Strip(Upper(PyStr(Get(r, "note_externe", VStr("")))))
        note_pmae == Strip(PyStr(Get(r, "note_pmae", VStr(""))))
    IN  IF DomesticSovereign(sous_segment, monnaie) THEN Ret(0)
        ELSE IF AnyIn(SovereignOrgs, sous_segment) THEN Ret(0)
        ELSE IF note_pmae # "" THEN Ret(DictGet(pmae_weights, note_pmae, 100))
        ELSE IF AnyIn(<<"AAA", "AA+", "AA", "AA-">>, note_externe) THEN Ret(0)
        ELSE IF AnyIn(<<"A+", "A", "A-">>, note_externe) THEN Ret(20)
        ELSE IF AnyIn(<<"BBB+", "BBB", "BBB-">>, note_externe) THEN Ret(50)
        ELSE IF AnyIn(<<"BB+", "BB", "BB-">>, note_externe) THEN Ret(100)
        ELSE IF AnyIn(<<"B+", "B", "B-">>, note_externe) THEN Ret(100)
        ELSE IF note_externe # "" /\ AnyIn(<<"CCC", "CC", "C", "D">>, note_externe)
        THEN Ret(150)
        ELSE Ret(100)

_calculate_sovereign_weighting(r) ==
    LET sous_segment == Lower(PyStr(Get(r, "sous_segment", VStr(""))))
        monnaie == Upper(PyStr(Get(r, "monnaie", VStr(""))))
        note_externe == Strip(Upper(PyStr(Get(r, "note_externe", VStr("")))))
        note_pmae == Strip(PyStr(Get(r, "note_pmae", VStr(""))))
    IN  IF DomesticSovereign(sous_segment, monnaie) THEN Ret(0)
        ELSE IF AnyIn(SovereignOrgs, sous_segment) THEN Ret(0)
        ELSE IF AnyIn(<<"AAA", "AA+", "AA", "AA-">>, note_externe) THEN Ret(0)
        ELSE IF AnyIn(<<"A+", "A", "A-">>, note_externe) THEN Ret(20)
        ELSE IF AnyIn(<<"BBB+", "BBB", "BBB-">>, note_externe) THEN Ret(50)
        ELSE IF AnyIn(<<"BB+", "BB", "BB-">>, note_externe) THEN Ret(100)
        ELSE IF AnyIn(<<"B+", "B", "B-">>, note_externe) THEN Ret(100)
        ELSE IF note_externe # "" /\ AnyIn(<<"CCC", "CC", "C", "D">>, note_externe)
        THEN Ret(150)
        ELSE IF note_pmae # "" THEN Ret(DictGet(pmae_weights, note_pmae, 100))
        ELSE Ret(100)

_calculate_public_org_weighting(r) ==
    LET remboursement_budget == Get(r, "remboursement_prevu_budget", VBool(FALSE))
        note_externe == PyStr(Get(r, "note_externe", VStr("")))
    IN  IF Truthy(remboursement_budget) THEN Ret(20)
        ELSE IF note_externe # "" /\ Strip(note_externe) # ""
        THEN Ret(_get_rating_weighting(note_externe, "general"))
        ELSE Ret(50)

_calculate_bmd_weighting_unrated_full(r) ==
    LET note_externe == Strip(Upper(PyStr(Get(r, "note_externe", VStr("")))))
    IN  IF Truthy(Get(r, "accord_bank_maghrib", VBool(FALSE))) THEN Ret(0)
        ELSE IF AnyIn(<<"AAA", "AA+">>, note_externe) THEN Ret(20)
        ELSE IF AnyIn(<<"AA", "AA-">>, note_externe) THEN Ret(20)
        ELSE IF AnyIn(<<"A+", "A", "A-">>, note_externe) THEN Ret(50)
        ELSE IF AnyIn(<<"BBB+", "BBB", "BBB-">>, note_externe) THEN Ret(50)
        ELSE IF AnyIn(<<"BB+", "BB", "BB-">>, note_externe) THEN Ret(100)
        ELSE IF AnyIn(<<"B+", "B", "B-">>, note_externe) THEN Ret(100)
        ELSE IF In("B-", note_externe) \/ AnyIn(<<"CCC", "CC", "C", "D">>, note_externe)
        THEN Ret(150)
        ELSE Ret(100)

_calculate_bmd_weighting(r) ==
    LET note_externe == Strip(Upper(PyStr(Get(r, "note_externe", VStr("")))))
    IN  IF Truthy(Get(r, "accord_bank_maghrib", VBool(FALSE))) THEN Ret(0)
        ELSE IF AnyIn(<<"AAA", "AA+">>, note_externe) THEN Ret(20)
        ELSE IF AnyIn(<<"AA", "AA-">>, note_externe) THEN Ret(20)
        ELSE IF AnyIn(<<"A+", "A", "A-">>, note_externe) THEN Ret(50)
        ELSE IF AnyIn(<<"BBB+", "BBB", "BBB-">>, note_externe) THEN Ret(50)
        ELSE IF AnyIn(<<"BB+", "BB", "BB-">>, note_externe) THEN Ret(100)
        ELSE IF AnyIn(<<"B+", "B", "B-">>, note_externe) THEN Ret(100)
        ELSE IF In("B-", note_externe) \/ AnyIn(<<"CCC", "CC", "C", "D">>, note_externe)
        THEN Ret(150)
        ELSE Ret(50)

_calculate_credit_institution_weighting(r) ==
    LET note_externe == PyStr(Get(r, "note_externe", VStr("")))
        echeance_initiale == Lower(PyStr(Get(r, "echeance_initiale", VStr(""))))
        note_inf_1an == PyStr(Get(r, "note_inf_1an", VStr("")))
        monnaie == Upper(PyStr(Get(r, "monnaie", VStr(""))))
    IN  IF echeance_initiale # ""
           /\ (In("< 1 an", echeance_initiale) \/ In("inf 1 an", echeance_initiale))
           /\ note_inf_1an # ""
        THEN Ret(_get_rating_weighting(note_inf_1an, "credit_short_term"))
        ELSE IF note_externe # ""
        THEN Ret(_get_rating_weighting(note_externe, "general"))
        ELSE IF In("# 3 mois", echeance_initiale) \/ In("< 3 mois", echeance_initiale)
        THEN (IF monnaie = "MAD"
              THEN Ret(20)
              ELSE Ret(_get_rating_weighting(note_externe, "general")))
        ELSE Ret(50)

_calculate_enterprise_weighting_rating_first(r) ==
    LET note_externe == PyStr(Get(r, "note_externe", VStr("")))
        echeance == Lower(PyStr(Get(r, "echeance", VStr(""))))
        note_inf_1an == PyStr(Get(r, "note_inf_1an", VStr("")))
        accord_bam == Get(r, "accord_bank_maghrib", VBool(FALSE))
        appart_groupe == Get(r, "appart_grpe", VBool(FALSE))
    IN  IF echeance # "" /\ (In("< 1 an", echeance) \/ In("inf 1 an", echeance))
           /\ note_inf_1an # ""
        THEN Ret(_get_rating_weighting(note_inf_1an, "enterprise_short_term"))
        ELSE IF Truthy(accord_bam) THEN Ret(100)
        ELSE IF note_externe # ""
        THEN Ret(_get_rating_weighting(note_externe, "general"))
        ELSE IF Truthy(appart_groupe) THEN Ret(150)
        ELSE Ret(100)

_calculate_enterprise_weighting(r) ==
    LET note_externe == PyStr(Get(r, "note_externe", VStr("")))
        echeance == Lower(PyStr(Get(r, "echeance", VStr(""))))
        note_inf_1an == PyStr(Get(r, "note_inf_1an", VStr("")))
        accord_bam == Get(r, "accord_bank_maghrib", VBool(FALSE))
        appart_groupe == Get(r, "appart_grpe", VBool(FALSE))
    IN  IF echeance # "" /\ (In("< 1 an", echeance) \/ In("inf 1 an", echeance))
           /\ note_inf_1an # ""
        THEN Ret(_get_rating_weighting(note_inf_1an, "enterprise_short_term"))
        ELSE IF Truthy(accord_bam) THEN Ret(100)
        ELSE IF Truthy(appart_groupe) THEN Ret(150)
        ELSE IF note_externe # ""
        THEN Ret(_get_rating_weighting(note_externe, "general"))
        ELSE Ret(100)

_calculate_tpe_weighting_typo(r) == Ret(70)

_calculate_tpe_weighting(r) == Ret(75)

(* Comparisons of floats [nan, n]: every comparison with nan is False *)
FNum(k) == [nan |-> FALSE, n |-> k]
FNaN == [nan |-> TRUE, n |-> 0]
FGt(x, k) == ~x.nan /\ x.n > k
FEq(x, k) == ~x.nan /\ x.n = k

(* a / b < num / den and a / b <= num / den, for b # 0 and den > 0.  The
   quotient of two integers below 2^31 is compared with the literal exactly
   as the rationals compare. *)
RatioLt(a, b, num, den) ==
    /\ ~a.nan /\ ~b.nan
    /\ IF b.n > 0 THEN a.n * den < num * b.n ELSE a.n * den > num * b.n
RatioLe(a, b, num, den) ==
    /\ ~a.nan /\ ~b.nan
    /\ IF b.n > 0 THEN a.n * den <= num * b.n ELSE a.n * den >= num * b.n

IndividualThreshold == 1000000

_calculate_individual_weighting_method_ge(r) ==
    LET montant == PyFloat(Get(r, "montant", VInt(0)))
    IN  IF montant.exc # "" THEN Raise(montant.exc)
        ELSE IF ~montant.nan /\ montant.n >= IndividualThreshold THEN Ret(100)
        ELSE Ret(75)

_calculate_individual_weighting_method(r) ==
    LET montant == PyFloat(Get(r, "montant", VInt(0)))
    IN  IF montant.exc # "" THEN Raise(montant.exc)
        ELSE IF FGt(montant, IndividualThreshold) THEN Ret(100)
        ELSE Ret(75)

_calculate_loan_weighting_lt(r) ==
    LET usage == Lower(PyStr(Get(r, "usage", VStr(""))))
        convention_etat == Get(r, "convention_etat", VBool(FALSE))
        garanti_hypotheque == Get(r, "garanti_hypotheque", VBool(FALSE))
        valeur_bien == PyFloat(Get(r, "valeur_bien_hypotheque", VInt(0)))
        montant == PyFloat(Get(r, "montant", VInt(0)))
    IN  IF In("residentiel", usage) \/ In("habitation", usage) THEN Ret(35)
        ELSE IF (In("commercial", usage) \/ In("professionnel", usage))
                /\ Truthy(garanti_hypotheque)
        THEN Ret(100)
        ELSE IF (In("commercial", usage) \/ In("professionnel", usage))
                /\ (In("bail", usage) \/ In("location", usage))
        THEN Ret(50)
        ELSE IF ~Truthy(convention_etat) THEN Ret(35)
        ELSE IF valeur_bien.exc # "" THEN Raise(valeur_bien.exc)
        ELSE IF montant.exc # "" THEN Raise(montant.exc)
        ELSE IF FGt(valeur_bien, 0) /\ FGt(montant, 0) /\ RatioLt(montant, valeur_bien, 4, 5)
        THEN Ret(75)
        ELSE Ret(35)

_calculate_loan_weighting(r) ==
    LET usage == Lower(PyStr(Get(r, "usage", VStr(""))))
        convention_etat == Get(r, "convention_etat", VBool(FALSE))
        garanti_hypotheque == Get(r, "garanti_hypotheque", VBool(FALSE))
        valeur_bien == PyFloat(Get(r, "valeur_bien_hypotheque", VInt(0)))
        montant == PyFloat(Get(r, "montant", VInt(0)))
    IN  IF In("residentiel", usage) \/ In("habitation", usage) THEN Ret(35)
        ELSE IF (In("commercial", usage) \/ In("professionnel", usage))
                /\ Truthy(garanti_hypotheque)
        THEN Ret(100)
        ELSE IF (In("commercial", usage) \/ In("professionnel", usage))
                /\ (In("bail", usage) \/ In("location", usage))
        THEN Ret(50)
        ELSE IF ~Truthy(convention_etat) THEN Ret(35)
        ELSE IF valeur_bien.exc # "" THEN Raise(valeur_bien.exc)
        ELSE IF montant.exc # "" THEN Raise(montant.exc)
        ELSE IF FGt(valeur_bien, 0) /\ FGt(montant, 0) /\ RatioLe(montant, valeur_bien, 4, 5)
        THEN Ret(75)
        ELSE Ret(35)

_calculate_distressed_debt_weighting_strict(r) ==
    LET valeur_encours == PyFloat(Get(r, "valeur_encours_creance", VInt(0)))
        provision == PyFloat(Get(r, "provision_constitue", VInt(0)))
        usage == Lower(PyStr(Get(r, "usage", VStr(""))))
    IN  IF valeur_encours.exc # "" THEN Raise(valeur_encours.exc)
        ELSE IF provision.exc # "" THEN Raise(provision.exc)
        ELSE IF FEq(valeur_encours, 0) THEN Ret(150)
        ELSE IF In("residentiel", usage)
        THEN (IF RatioLt(provision, valeur_encours, 1, 5) THEN Ret(100) ELSE Ret(50))
        ELSE IF RatioLt(provision, valeur_encours, 1, 5) THEN Ret(150)
        ELSE IF RatioLt(provision, valeur_encours, 1, 2) THEN Ret(100)
        ELSE Ret(50)

_calculate_distressed_debt_weighting_unguarded(r) ==
    LET valeur_encours == PyFloat(Get(r, "valeur_encours_creance", VInt(0)))
        provision == PyFloat(Get(r, "provision_constitue", VInt(0)))
        usage == Lower(PyStr(Get(r, "usage", VStr(""))))
    IN  IF valeur_encours.exc # "" THEN Raise(valeur_encours.exc)
        ELSE IF provision.exc # "" THEN Raise(provision.exc)
        ELSE IF FEq(valeur_encours, 0) THEN Raise("ZeroDivisionError")
        ELSE IF In("residentiel", usage)
        THEN (IF RatioLt(provision, valeur_encours, 1, 5) THEN Ret(100) ELSE Ret(50))
        ELSE IF RatioLt(provision, valeur_encours, 1, 5) THEN Ret(150)
        ELSE IF RatioLe(provision, valeur_encours, 1, 2) THEN Ret(100)
        ELSE Ret(50)

_calculate_distressed_debt_weighting(r) ==
    LET valeur_encours == PyFloat(Get(r, "valeur_encours_creance", VInt(0)))
        provision == PyFloat(Get(r, "provision_constitue", VInt(0)))
        usage == Lower(PyStr(Get(r, "usage", VStr(""))))
    IN  IF valeur_encours.exc # "" THEN Raise(valeur_encours.exc)
        ELSE IF provision.exc # "" THEN Raise(provision.exc)
        ELSE IF FEq(valeur_encours, 0) THEN Ret(150)
        ELSE IF In("residentiel", usage)
        THEN (IF RatioLt(provision, valeur_encours, 1, 5) THEN Ret(100) ELSE Ret(50))
        ELSE IF RatioLt(provision, valeur_encours, 1, 5) THEN Ret(150)
        ELSE IF RatioLe(provision, valeur_encours, 1, 2) THEN Ret(100)
        ELSE Ret(50)

-----------------------------------------------------------------------------
(* Segment dispatcher *)

_calculate_individual_weighting_raising(r) ==
    LET segment == Lower(PyStr(Get(r, "segment", VStr(""))))
    IN  CASE segment = "creance_souffrance" -> _calculate_distressed_debt_weighting(r)
          [] segment = "souverain" -> _calculate_sovereign_weighting(r)
          [] segment = "organisme_public" -> _calculate_public_org_weighting(r)
          [] segment = "bmd" -> _calculate_bmd_weighting(r)
          [] segment = "etablissement_credit" -> _calculate_credit_institution_weighting(r)
          [] segment = "entreprise" -> _calculate_enterprise_weighting(r)
          [] segment = "tpe" -> _calculate_tpe_weighting(r)
          [] segment = "particulier" -> _calculate_individual_weighting_method(r)
          [] segment = "pret" -> _calculate_loan_weighting(r)
          [] OTHER -> Raise("KeyError")

_calculate_individual_weighting(r) ==
    LET segment == Lower(PyStr(Get(r, "segment", VStr(""))))
    IN  CASE segment = "creance_souffrance" -> _calculate_distressed_debt_weighting(r)
          [] segment = "souverain" -> _calculate_sovereign_weighting(r)
          [] segment = "organisme_public" -> _calculate_public_org_weighting(r)
          [] segment = "bmd" -> _calculate_bmd_weighting(r)
          [] segment = "etablissement_credit" -> _calculate_credit_institution_weighting(r)
          [] segment = "entreprise" -> _calculate_enterprise_weighting(r)
          [] segment = "tpe" -> _calculate_tpe_weighting(r)
          [] segment = "particulier" -> _calculate_individual_weighting_method(r)
          [] segment = "pret" -> _calculate_loan_weighting(r)
          [] OTHER -> Ret(100)

-----------------------------------------------------------------------------
(* Rule explanation.  The texts are written without their accents, and the
   sign of 'at most' as #; the % that ends a text is the percent sign. *)

(* f"{clause} - Pondération {weighting_percent}%" *)
Explanation(clause, weighting_percent) ==
    [exc |-> "", s |-> clause \o " - Ponderation " \o NatStr(weighting_percent) \o "%"]

_get_rule_explanation(r, weighting) ==
    LET segment == Lower(PyStr(Get(r, "segment", VStr(""))))
        sous_segment == PyStr(Get(r, "sous_segment", VStr("")))
        note_externe == PyStr(Get(r, "note_externe", VStr("Pas de notation")))
        monnaie == Get(r, "monnaie", VStr("MAD"))
        weighting_percent == weighting
    IN  CASE segment = "souverain" ->
               (IF (In("maroc", Lower(sous_segment)) \/ In("bam", Lower(sous_segment)))
                   /\ Upper(PyStr(monnaie)) = "MAD"
                THEN Explanation("Etat marocain/BAM en MAD", weighting_percent)
                ELSE IF Truthy(Get(r, "note_pmae", None))
                THEN Explanation("Etat etranger PMAE " \o PyStr(Get(r, "note_pmae", None)),
                                 weighting_percent)
                ELSE Explanation("Etat etranger note " \o note_externe, weighting_percent))
          [] segment = "organisme_public" ->
               (IF Truthy(Get(r, "remboursement_prevu_budget", None))
                THEN Explanation("Organisme public (remboursement budget)",
                                 weighting_percent)
                ELSE Explanation("Organisme public note " \o note_externe,
                                 weighting_percent))
          [] segment = "bmd" ->
               (IF Truthy(Get(r, "accord_bank_maghrib", None))
                THEN Explanation("BMD listee Bank Al-Maghrib", weighting_percent)
                ELSE Explanation("BMD note " \o note_externe, weighting_percent))
          [] segment = "etablissement_credit" ->
               (IF In("< 1 an", PyStr(Get(r, "echeance_initiale", VStr(""))))
                   /\ Truthy(Get(r, "note_inf_1an", None))
                THEN Explanation("Etablissement credit court terme "
                                     \o PyStr(Get(r, "note_inf_1an", None)),
                                 weighting_percent)
                ELSE Explanation("Etablissement credit note " \o note_externe,
                                 weighting_percent))
          [] segment = "entreprise" ->
               (IF Truthy(Get(r, "appart_grpe", None))
                THEN Explanation("Entreprise de groupe", weighting_percent)
                ELSE IF Truthy(Get(r, "accord_bank_maghrib", None))
                THEN Explanation("Entreprise accord BAM", weighting_percent)
                ELSE Explanation("Entreprise note " \o note_externe, weighting_percent))
          [] segment = "tpe" -> Explanation("Tres petite entreprise", weighting_percent)
          [] segment = "particulier" ->
               (LET montant == PyFloat(Get(r, "montant", VInt(0)))
                IN  IF montant.exc # "" THEN [exc |-> montant.exc, s |-> ""]
                    ELSE IF FGt(montant, 1000000)
                    THEN Explanation("Particulier > 1M MAD", weighting_percent)
                    ELSE Explanation("Particulier # 1M MAD", weighting_percent))
          [] segment = "pret" ->
               (LET usage == Lower(PyStr(Get(r, "usage", VStr(""))))
                IN  IF In("residentiel", usage)
                    THEN Explanation("Pret immobilier residentiel", weighting_percent)
                    ELSE IF In("commercial", usage)
                            /\ Truthy(Get(r, "garanti_hypotheque", None))
                    THEN Explanation("Pret commercial garanti", weighting_percent)
                    ELSE Explanation("Pret immobilier", weighting_percent))
          [] segment = "creance_souffrance" ->
               Explanation("Creance en souffrance", weighting_percent)
          [] OTHER -> Explanation("Autre contrepartie", weighting_percent)

-----------------------------------------------------------------------------
(* calculate_rwa(df).  A DataFrame is the sequence of its rows; a column is
   absent from every row or from none. *)

(* the columns copied into the result of a row, by segment *)
SegmentAttributes(segment) ==
    CASE segment = "souverain" -> {"monnaie", "note_externe", "note_pmae"}
      [] segment = "organisme_public" ->
            {"monnaie", "remboursement_prevu_budget", "creance_souffrance", "note_externe"}
      [] segment = "bmd" -> {"note_externe"}
      [] segment = "etablissement_credit" ->
            {"monnaie", "echeance_initiale", "note_externe", "note_inf_1an", "note_inf_3mois"}
      [] segment = "entreprise" ->
            {"monnaie", "echeance", "note_sup_1an", "note_inf_1an", "accord_bank_maghrib",
             "appart_grpe", "dette_banc"}
      [] segment = "tpe" -> {"monnaie"}
      [] segment = "particulier" -> {"monnaie", "montant_creance", "garanti_hypotheque"}
      [] segment = "pret" -> {"usage", "convention_etat", "valeur_bien_hypotheque"}
      [] segment = "creance_souffrance" -> {"valeur_encours_creance", "provision_constitue"}
      [] OTHER -> {}

RowRwa_percent(montant, w) == IF montant.nan THEN FNaN ELSE FNum((montant.n * w) \div 100)

(* montant * weighting, nan when the amount is nan *)
RowRwa(montant, w) == IF montant.nan THEN FNaN ELSE FNum(montant.n * w)

(* the result appended for one row, given what the two calls of the loop
   body returned: [exc, result] *)
ResultEntry(r, idx, weighting_, montant) ==
    IF weighting_.exc # "" \/ montant.exc # ""
    THEN [exc |-> IF weighting_.exc # "" THEN weighting_.exc ELSE montant.exc,
          result |-> [index |-> idx, segment |-> Absent, sous_segment |-> Absent,
                      montant |-> FNaN, ponderation |-> 0, rwa |-> FNaN,
                      regle |-> "", attributes |-> {}]]
    ELSE [exc |-> _get_rule_explanation(r, weighting_.w).exc,
          result |->
            [index |-> idx,
             segment |-> Get(r, "segment", VStr("")),
             sous_segment |-> Get(r, "sous_segment", VStr("")),
             montant |-> [nan |-> montant.nan, n |-> montant.n],
             ponderation |-> weighting_.w,
             rwa |-> RowRwa(montant, weighting_.w),
             regle |-> _get_rule_explanation(r, weighting_.w).s,
             attributes |->
                {<<f, IF f \in DOMAIN r THEN Get(r, f, VStr("")) ELSE VStr("")>> :
                    f \in SegmentAttributes(Lower(PyStr(Get(r, "segment", VStr("")))))}]]

(* the body of the loop for one row *)
RowResult(r, idx) ==
    ResultEntry(r, idx, _calculate_individual_weighting(r),
                PyFloat(Get(r, "montant", VInt(0))))

RECURSIVE SumSkipNa_stop(_)
SumSkipNa_stop(xs) ==
    IF xs = <<>> \/ Head(xs).nan THEN 0 ELSE Head(xs).n + SumSkipNa_stop(Tail(xs))

(* Series.sum(): the missing values are skipped *)
RECURSIVE SumSkipNa(_)
SumSkipNa(xs) ==
    IF xs = <<>> THEN 0
    ELSE (IF Head(xs).nan THEN 0 ELSE Head(xs).n) + SumSkipNa(Tail(xs))

(* Series.unique(): the distinct values in order of appearance *)
RECURSIVE Unique(_)
Unique(xs) ==
    IF xs = <<>> THEN <<>>
    ELSE LET rest == Unique(SubSeq(xs, 1, Len(xs) - 1))
             last == xs[Len(xs)]
         IN  IF \E k \in 1..Len(rest) : rest[k] = last THEN rest ELSE Append(rest, last)

(* x == y of two cells of a column: a missing value equals nothing *)
CellEq(x, y) == x.t \notin {"nan", "none"} /\ y.t \notin {"nan", "none"} /\ x = y

AverageWeighting_unguarded(rwa, exposure) == [num |-> rwa, den |-> exposure]

(* total_rwa / total_exposure * 100 if total_exposure > 0 else 0, as the
   exact quotient [num, den] of the RWA in hundredths by the exposure *)
AverageWeighting(rwa, exposure) ==
    IF exposure > 0 THEN [num |-> rwa, den |-> exposure] ELSE [num |-> 0, den |-> 1]

SegmentTotals_presence(segment_data, montants, rwas) ==
    [count |-> IF segment_data = <<>> THEN 0 ELSE 1,
     total_exposure |-> montants,
     total_rwa |-> rwas,
     avg_weighting |-> AverageWeighting(rwas, montants)]

SegmentTotals(segment_data, montants, rwas) ==
    [count |-> Len(segment_data),
     total_exposure |-> montants,
     total_rwa |-> rwas,
     avg_weighting |-> AverageWeighting(rwas, montants)]

SegmentData(results, segment) ==
    LET Same(x) == CellEq(x.segment, segment)
    IN  SelectSeq(results, Same)

SegmentAnalysis(segment_data) ==
    SegmentTotals(segment_data,
                  SumSkipNa([k \in 1..Len(segment_data) |-> segment_data[k].montant]),
                  SumSkipNa([k \in 1..Len(segment_data) |-> segment_data[k].rwa]))

NoResults ==
    [results_df |-> <<>>, total_rwa |-> 0, total_exposure |-> 0,
     average_weighting |-> [num |-> 0, den |-> 1], unique_counterparty_types |-> 0,
     counterparty_analysis |-> <<>>]

(* the aggregates of calculate_rwa, lines 151 to 176, from the results of the
   loop *)
Aggregates(d, results, segments, total_rwa, total_exposure) ==
    IF d[1]["segment"].t = "absent"
    THEN [exc |-> "KeyError", value |-> NoResults]
    ELSE [exc |-> "",
          value |->
            [results_df |-> results,
             total_rwa |-> total_rwa,
             total_exposure |-> total_exposure,
             average_weighting |-> AverageWeighting(total_rwa, total_exposure),
             unique_counterparty_types |->
                Len(Unique([i \in 1..Len(d) |-> d[i]["segment"]])),
             counterparty_analysis |->
                [k \in 1..Len(segments) |->
                    <<segments[k], SegmentAnalysis(SegmentData(results, segments[k]))>>]]]

(* the loop has run: the first exception raised ends the call; an empty
   DataFrame of results has no column 'rwa' *)
AfterLoop(d, rows, results) ==
    IF \E i \in 1..Len(d) : rows[i].exc # ""
    THEN [exc |-> rows[CHOOSE i \in 1..Len(d) :
                          rows[i].exc # "" /\ \A j \in 1..(i - 1) : rows[j].exc = ""].exc,
          value |-> NoResults]
    ELSE IF Len(d) = 0 THEN [exc |-> "KeyError", value |-> NoResults]
    ELSE Aggregates(d, results,
                    Unique([i \in 1..Len(d) |-> results[i].segment]),
                    SumSkipNa([i \in 1..Len(d) |-> results[i].rwa]),
                    SumSkipNa([i \in 1..Len(d) |-> results[i].montant]))

Results(rows) == [i \in 1..Len(rows) |-> rows[i].result]

(* the loop over df.iterrows(): the result of each row is appended *)
RECURSIVE LoopUpTo(_, _)
LoopUpTo(d, n) ==
    IF n = 0 THEN <<>> ELSE Append(LoopUpTo(d, n - 1), RowResult(d[n], n))

Loop_previous_row(d) ==
    [n \in 1..Len(d) |-> RowResult(d[IF n > 1 THEN n - 1 ELSE n], n)]

Loop(d) == LoopUpTo(d, Len(d))

LoopDone(d, rows) == AfterLoop(d, rows, Results(rows))

calculate_rwa(d) == LoopDone(d, Loop(d))

-----------------------------------------------------------------------------
(* DataValidator.clean_dataframe on one cell of a rating column: upper and
   strip of a str (a cell that is no str becomes missing), then the blank and
   the missing cells become 'UNRATED' *)
CleanRatingCell(v) ==
    IF v.t = "str" /\ Strip(Upper(v.s)) # "" THEN VStr(Strip(Upper(v.s))) ELSE VStr("UNRATED")

-----------------------------------------------------------------------------
(* Inputs *)

Fields ==
    {"segment", "sous_segment", "monnaie", "montant", "note_externe", "note_pmae",
     "remboursement_prevu_budget", "accord_bank_maghrib", "echeance_initiale",
     "echeance", "note_inf_1an", "appart_grpe", "dette_banc", "usage",
     "convention_etat", "garanti_hypotheque", "valeur_bien_hypotheque",
     "valeur_encours_creance", "provision_constitue"}

Blank == [f \in Fields |-> Absent]

Seg(name) == [Blank EXCEPT !["segment"] = VStr(name), !["montant"] = VInt(500000)]

Strs(S) == {VStr(x) : x \in S}
Ints(S) == {VInt(k) : k \in S}
Flags == {VBool(TRUE), VBool(FALSE)}

Ratings ==
    {Absent, NaN, None}
    \cup Strs({"", " ", "UNRATED", "AAA", "AA-", "A+", "A", "BBB+", "BBB", "BB", "B-",
               "CCC", "D", "XYZ"})

(* the rating codes the resolvers name, lines 253 to 263 *)
StandardRatings ==
    {"AAA", "AA+", "AA", "AA-", "A+", "A", "A-", "BBB+", "BBB", "BBB-",
     "BB+", "BB", "BB-", "B+", "B", "B-", "CCC", "CC", "C", "D"}

Montants ==
    {Absent, NaN, None, VFloat(1500000)}
    \cup Ints({-1000, 0, 900000, 1000000, 1000001, 1500000})
    \cup Strs({"1500000", "abc", ""})

SovereignExposures ==
    {[Seg("souverain") EXCEPT !["sous_segment"] = ss, !["monnaie"] = mo,
                              !["note_externe"] = ne, !["note_pmae"] = pm] :
        ss \in {Absent} \cup Strs({"Etat etranger", "Royaume du MAROC", "Morocco",
                                   "Tresor BAM", "FMI"}),
        mo \in {Absent} \cup Strs({"MAD", "mad", "USD"}),
        ne \in Ratings,
        pm \in {Absent, VStr("2")}}
    \cup
    {[Seg("souverain") EXCEPT !["sous_segment"] = VStr("Etat etranger"),
                              !["monnaie"] = VStr("USD"),
                              !["note_externe"] = ne, !["note_pmae"] = pm] :
        ne \in {Absent, NaN, None} \cup Strs({"", "UNRATED", "XYZ", "BBB"}),
        pm \in {Absent, NaN, VFloat(3)} \cup Ints(0..7)
               \cup Strs({"", "0", "1", "2", "3", "4", "5", "6", "7", "9", " 3 "})}
    \cup
    {[Seg("souverain") EXCEPT !["sous_segment"] = VStr("Etat etranger"),
                              !["monnaie"] = VStr("USD"),
                              !["note_externe"] = ne, !["note_pmae"] = pm] :
        ne \in Strs(StandardRatings) \cup Strs({"aa-", " BB+ "}),
        pm \in {Absent, VStr("0"), VInt(7)}}

PublicOrgExposures ==
    {[Seg("organisme_public") EXCEPT !["remboursement_prevu_budget"] = rb,
                                     !["note_externe"] = ne] :
        rb \in {Absent} \cup Flags, ne \in Ratings}
    \cup
    {[Seg("organisme_public") EXCEPT !["note_externe"] = ne] :
        ne \in Strs(StandardRatings) \cup Strs({"bb+", " A "})}

BmdExposures ==
    {[Seg("bmd") EXCEPT !["accord_bank_maghrib"] = ab, !["note_externe"] = ne] :
        ab \in {Absent} \cup Flags, ne \in Ratings}
    \cup
    {[Seg("bmd") EXCEPT !["note_externe"] = ne] :
        ne \in Strs(StandardRatings) \cup Strs({"bbb-", " CC "})}

CreditInstitutionExposures ==
    {[Seg("etablissement_credit") EXCEPT !["echeance_initiale"] = ei,
                                         !["note_inf_1an"] = ni,
                                         !["note_externe"] = ne, !["monnaie"] = mo] :
        ei \in {Absent} \cup Strs({"", "< 1 an", "# 3 mois", "< 3 mois", "> 1 an"}),
        ni \in {Absent} \cup Strs({"", "A-1", "A-2", "A-3", "B"}),
        ne \in {Absent, NaN} \cup Strs({"", "AAA", "A", "BBB", "UNRATED", "XYZ"}),
        mo \in {Absent} \cup Strs({"MAD", "USD"})}

GroupDebtThreshold == 500000000

EnterpriseExposures ==
    {[Seg("entreprise") EXCEPT !["echeance"] = ec, !["note_inf_1an"] = ni,
                               !["accord_bank_maghrib"] = ab, !["appart_grpe"] = ag,
                               !["dette_banc"] = db, !["note_externe"] = ne] :
        ec \in {Absent} \cup Strs({"< 1 an", "> 1 an"}),
        ni \in {Absent} \cup Strs({"", "A-1", "A-3"}),
        ab \in Flags, ag \in Flags,
        db \in Ints({GroupDebtThreshold - 1, GroupDebtThreshold, 600000000}),
        ne \in {Absent} \cup Strs({"", "AAA", "BB", "CCC", "UNRATED", "XYZ"})}
    \cup
    {[Seg("entreprise") EXCEPT !["echeance"] = ec, !["note_inf_1an"] = ni,
                               !["accord_bank_maghrib"] = ab, !["appart_grpe"] = ag,
                               !["dette_banc"] = db] :
        ec \in Strs({"Inf 1 an", "inf_1_an", ""}),
        ni \in {NaN, VStr("A-2")},
        ab \in {Absent, NaN, VInt(0)}, ag \in {Absent, NaN, VInt(1), VStr("False")},
        db \in {Absent, NaN, VInt(0)}}

TpeExposures == {[Seg("tpe") EXCEPT !["montant"] = m] : m \in Montants}

IndividualExposures ==
    {[Seg("particulier") EXCEPT !["montant"] = m, !["garanti_hypotheque"] = gh] :
        m \in Montants, gh \in {Absent} \cup Flags}

LoanExposures ==
    {[Seg("pret") EXCEPT !["usage"] = us, !["garanti_hypotheque"] = gh,
                         !["convention_etat"] = ce, !["valeur_bien_hypotheque"] = vb,
                         !["montant"] = m] :
        us \in {Absent} \cup Strs({"Residentiel", "habitation", "commercial",
                                   "commercial credit-bail", "professionnel location",
                                   "habitation et commercial", "autre"}),
        gh \in Flags, ce \in Flags,
        vb \in {Absent, VStr("abc")} \cup Ints({0, 1000000, 1250000, 1250001}),
        m \in Ints({0, 1000000, 1000001})}

DistressedDebtExposures ==
    {[Seg("creance_souffrance") EXCEPT !["valeur_encours_creance"] = ve,
                                       !["provision_constitue"] = pc,
                                       !["usage"] = us] :
        ve \in {Absent, NaN, VFloat(0), VStr("abc")} \cup Ints({0, 1000000}),
        pc \in {Absent, NaN, VStr("abc")}
               \cup Ints({0, 100000, 199999, 200000, 500000, 500001, 1000000}),
        us \in {Absent} \cup Strs({"residentiel", "Credit Residentiel", "commercial"})}

OtherExposures ==
    {[Blank EXCEPT !["segment"] = sg, !["montant"] = m] :
        sg \in {Absent, NaN, None, VInt(5)}
               \cup Strs({"unknown_type", "", " souverain", "tpe ", "TPE", "Particulier",
                          "immobilier"}),
        m \in Montants}

Exposures ==
    SovereignExposures \cup PublicOrgExposures \cup BmdExposures
    \cup CreditInstitutionExposures \cup EnterpriseExposures \cup TpeExposures
    \cup IndividualExposures \cup LoanExposures \cup DistressedDebtExposures
    \cup OtherExposures

(* the rows of the portfolios of several exposures *)
Col4(sg, ss, mo, m) ==
    [Blank EXCEPT !["segment"] = sg, !["sous_segment"] = ss, !["monnaie"] = mo,
                  !["montant"] = m]

BatchExposures ==
    {Col4(VStr("tpe"), VStr("PME"), VStr("MAD"), VInt(1000)),
     Col4(VStr("TPE"), NaN, VStr("MAD"), VInt(3000)),
     Col4(VStr("particulier"), NaN, VStr("MAD"), VInt(1500000)),
     Col4(VStr("unknown_type"), NaN, NaN, VInt(500000)),
     Col4(VStr("souverain"), VStr("Maroc"), VStr("MAD"), VInt(2000000)),
     Col4(VStr("tpe"), NaN, VStr("MAD"), VStr("abc")),
     Col4(VStr("tpe"), NaN, VStr("MAD"), NaN),
     Col4(NaN, NaN, VStr("MAD"), VInt(1000)),
     Col4(VStr("tpe"), Absent, Absent, Absent),
     Col4(VStr("particulier"), Absent, Absent, Absent),
     Col4(Absent, Absent, Absent, VInt(1000))}

MaxRows == 3

SameColumns(d) ==
    \A i \in 1..Len(d), j \in 1..Len(d), f \in Fields :
        (d[i][f].t = "absent") <=> (d[j][f].t = "absent")

Portfolios ==
    {<<r>> : r \in Exposures}
    \cup {d \in UNION {[1..n -> BatchExposures] : n \in 0..MaxRows} : SameColumns(d)}

-----------------------------------------------------------------------------
(* The calculator called on a portfolio *)

Pending == [exc |-> "pending", w |-> 0]

(* None and a value of st.session_state.data and st.session_state.rwa_results *)
NoData == [none |-> TRUE, df |-> <<>>]
Data(d) == [none |-> FALSE, df |-> d]
NoSessionResults == [none |-> TRUE, value |-> NoResults]
SessionResults(res) == [none |-> FALSE, value |-> res]

(* the session state of app.py, lines 187 to 194; nothing is on the page *)
SessionStart ==
    /\ page = "upload"
    /\ data = NoData
    /\ validation_results = "None"
    /\ session_rwa_results = NoSessionResults
    /\ shown = NoSessionResults

Init ==
    /\ df \in Portfolios
    /\ weightings = [i \in 1..Len(df) |-> Pending]
    /\ rwa_results = [exc |-> "pending", value |-> NoResults]
    /\ rating_weights = _initialize_rating_weights
    /\ pmae_weights = _initialize_pmae_weights
    /\ SessionStart

(* _calculate_individual_weighting(row) for each row of df *)
CalculateIndividualWeighting ==
    /\ weightings' = [i \in 1..Len(df) |-> _calculate_individual_weighting(df[i])]
    /\ UNCHANGED <<df, rwa_results, rating_weights, pmae_weights, session>>

(* calculate_rwa(df) *)
CalculateRwa ==
    /\ rwa_results' = calculate_rwa(df)
    /\ UNCHANGED <<df, weightings, rating_weights, pmae_weights, session>>

Next == CalculateIndividualWeighting \/ CalculateRwa

Spec == Init /\ [][Next]_vars

-----------------------------------------------------------------------------
(* Properties *)

Rows == 1..Len(df)
Weighed(i) == weightings[i].exc = ""
Calculated == rwa_results.exc = ""
ResultRow(i) == rwa_results.value.results_df[i]
SegmentOf(r) == Lower(PyStr(Get(r, "segment", VStr(""))))
NumericAmount(r) == PyFloat(Get(r, "montant", VInt(0))).exc = "" /\ r["montant"].t # "nan"

ClosedWeights == {0, 20, 35, 50, 75, 100, 150}

(* C1: every weight returned by _calculate_individual_weighting, and every
   'ponderation' stored by calculate_rwa, is one of the seven values
   0, 0.20, 0.35, 0.50, 0.75, 1.00, 1.50. *)
C1_WeightInClosedSet ==
    /\ \A i \in Rows : Weighed(i) => weightings[i].w \in ClosedWeights
    /\ Calculated => \A i \in Rows : ResultRow(i).ponderation \in ClosedWeights

C1_Witness ==
    /\ Len(df) = 1 /\ SegmentOf(df[1]) = "pret"
    /\ weightings[1] = Ret(35)
    /\ Calculated /\ ResultRow(1).ponderation = 35

(* C2: in every row of the result of calculate_rwa the RWA is the amount
   times the weight, and it is >= 0 whenever the amount is >= 0.  The amount
   of the row is float() of the input amount. *)
C2_RwaIsAmountTimesWeight ==
    Calculated =>
        \A i \in Rows :
            LET x == ResultRow(i)
                amount == PyFloat(Get(df[i], "montant", VInt(0)))
            IN  /\ x.montant = [nan |-> amount.nan, n |-> amount.n]
                /\ x.rwa.nan = x.montant.nan
                /\ ~x.montant.nan =>
                      /\ x.rwa.n = x.montant.n * x.ponderation
                      /\ x.montant.n >= 0 => x.rwa.n >= 0

C2_Witness ==
    /\ Calculated
    /\ \E i \in Rows :
          /\ ResultRow(i).montant = FNum(1500000)
          /\ ResultRow(i).ponderation = 100
          /\ ResultRow(i).rwa = FNum(150000000)

RECURSIVE SumOver(_, _)
SumOver(S, f) ==
    IF S = {} THEN 0 ELSE LET i == CHOOSE j \in S : TRUE IN f[i] + SumOver(S \ {i}, f)

Orders(n) == {p \in [1..n -> 1..n] : \A i, j \in 1..n : p[i] = p[j] => i = j}

(* the per-segment breakdown as a mapping, whatever the order of its keys *)
Breakdown(res) ==
    {<<res.counterparty_analysis[k][1], res.counterparty_analysis[k][2].count,
       res.counterparty_analysis[k][2].total_exposure,
       res.counterparty_analysis[k][2].total_rwa>> :
        k \in 1..Len(res.counterparty_analysis)}

(* C3: the totals returned by calculate_rwa are the sums of the per-exposure
   RWAs and amounts (a missing value counts for nothing), and calculate_rwa
   on every permutation of the input returns the same total RWA, total
   exposure and per-segment counts and sums. *)
C3_TotalsAreSumsInAnyOrder ==
    Calculated =>
        LET res == rwa_results.value
            rwa == [i \in Rows |-> IF ResultRow(i).rwa.nan THEN 0 ELSE ResultRow(i).rwa.n]
            amount ==
                [i \in Rows |-> IF ResultRow(i).montant.nan THEN 0 ELSE ResultRow(i).montant.n]
        IN  /\ res.total_rwa = SumOver(Rows, rwa)
            /\ res.total_exposure = SumOver(Rows, amount)
            /\ \A p \in Orders(Len(df)) :
                  LET other == calculate_rwa([i \in Rows |-> df[p[i]]])
                  IN  /\ other.exc = ""
                      /\ other.value.total_rwa = res.total_rwa
                      /\ other.value.total_exposure = res.total_exposure
                      /\ Breakdown(other.value) = Breakdown(res)

C3_Witness ==
    /\ Calculated /\ Len(df) = 3
    /\ df[1] # df[2] /\ df[2] # df[3] /\ df[1] # df[3]
    /\ df[2]["montant"] = NaN
    /\ rwa_results.value.total_rwa = 150000000 + 75000
    /\ rwa_results.value.total_exposure = 1501000

RecognizedSegments ==
    {"souverain", "organisme_public", "bmd", "etablissement_credit", "entreprise",
     "tpe", "particulier", "pret", "creance_souffrance"}

UnrecognizedSegment(r) == r["segment"].t = "str" /\ SegmentOf(r) \notin RecognizedSegments

(* C4: an exposure whose segment string is not a recognized segment gets
   weight 1.00 and the dispatcher raises nothing for it, whatever its other
   fields; in the result of calculate_rwa its weight is 1.00 and its RWA is
   its amount; and calculate_rwa raises nothing on a portfolio of such
   exposures with numeric amounts. *)
C4_UnrecognizedSegmentDefault ==
    /\ \A i \in Rows :
          UnrecognizedSegment(df[i]) =>
              /\ weightings[i] \in {Pending, Ret(100)}
              /\ Calculated =>
                    /\ ResultRow(i).ponderation = 100
                    /\ ~ResultRow(i).montant.nan =>
                          ResultRow(i).rwa = FNum(100 * ResultRow(i).montant.n)
    /\ (df # <<>> /\ \A i \in Rows : UnrecognizedSegment(df[i]) /\ NumericAmount(df[i]))
          => rwa_results.exc \in {"pending", ""}

C4_Witness ==
    /\ Len(df) = 1 /\ df[1]["segment"] = VStr("unknown_type")
    /\ df[1]["montant"] = VInt(500000)
    /\ weightings[1] = Ret(100)
    /\ Calculated /\ ResultRow(1).rwa = FNum(100 * 500000)

BadAmount(r) ==
    \/ r["montant"].t \in {"absent", "nan", "none"}
    \/ r["montant"].t = "str" /\ ~IsDigits(Strip(r["montant"].s))

(* C5: calculate_rwa treats a missing or non-numeric amount as 0: when a row
   of the portfolio has such an amount, the call raises nothing, that row has
   amount 0 and RWA 0, and every row has its result. *)
C5_BadAmountTreatedAsZero ==
    (/\ df # <<>> /\ \A i \in Rows : df[i]["segment"].t = "str"
     /\ \E i \in Rows : BadAmount(df[i])
     /\ rwa_results.exc # "pending")
    => /\ Calculated
       /\ Len(rwa_results.value.results_df) = Len(df)
       /\ \A i \in Rows :
             BadAmount(df[i]) =>
                 ResultRow(i).montant = FNum(0) /\ ResultRow(i).rwa = FNum(0)

Sovereign(r) == SegmentOf(r) = "souverain"
SubSegment(r) == Lower(PyStr(Get(r, "sous_segment", VStr(""))))
Currency(r) == Upper(PyStr(Get(r, "monnaie", VStr(""))))

(* a 0% clause of the sovereign resolver applies *)
ZeroClause(r) ==
    \/ /\ In("maroc", SubSegment(r)) \/ In("bam", SubSegment(r))
          \/ In("bank al-maghrib", SubSegment(r))
       /\ Currency(r) = "MAD"
    \/ AnyIn(SovereignOrgs, SubSegment(r))

Blankish(v) == v.t \in {"absent", "nan", "none"} \/ (v.t = "str" /\ Strip(v.s) = "")

(* the rating is missing: absent, blank, null, or what data cleaning writes
   for a blank rating *)
MissingRating(v) == Blankish(v) \/ v = CleanRatingCell(VStr(""))

(* C6: a sovereign exposure that matches no 0% clause, has no PMAE class and
   has a missing external rating gets weight 1.00. *)
C6_UnratedSovereignIsFull ==
    \A i \in Rows :
        (/\ Sovereign(df[i]) /\ ~ZeroClause(df[i])
         /\ Blankish(df[i]["note_pmae"])
         /\ MissingRating(df[i]["note_externe"])
         /\ Weighed(i))
        => weightings[i].w = 100

(* C7, as stated: a sovereign exposure in MAD whose sub-segment contains
   "Morocco" or "BAM", in any letter case, gets weight 0 whatever its rating
   and PMAE fields. *)
C7_MoroccoOrBamInMad ==
    \A i \in Rows :
        (/\ Sovereign(df[i]) /\ Currency(df[i]) = "MAD"
         /\ In("morocco", SubSegment(df[i])) \/ In("bam", SubSegment(df[i]))
         /\ Weighed(i))
        => weightings[i].w = 0

(* C7, amended: a sovereign exposure in MAD whose sub-segment contains
   "maroc" or "bam", in any letter case, gets weight 0 whatever its rating
   and PMAE fields. *)
C7_MarocOrBamInMad ==
    \A i \in Rows :
        (/\ Sovereign(df[i]) /\ Currency(df[i]) = "MAD"
         /\ In("maroc", SubSegment(df[i])) \/ In("bam", SubSegment(df[i]))
         /\ weightings[i] # Pending)
        => weightings[i] = Ret(0)

C7_Witness ==
    \E i \in Rows :
        /\ Sovereign(df[i])
        /\ df[i]["sous_segment"] = VStr("Tresor BAM") /\ df[i]["monnaie"] = VStr("mad")
        /\ df[i]["note_externe"] = VStr("CCC") /\ df[i]["note_pmae"] = VStr("2")
        /\ weightings[i] = Ret(0)

Enterprise(r) == SegmentOf(r) = "entreprise"
GroupFlag(r) == Truthy(Get(r, "appart_grpe", VBool(FALSE)))
AgreementFlag(r) == Truthy(Get(r, "accord_bank_maghrib", VBool(FALSE)))
HasBankDebt(r) == r["dette_banc"].t \in {"int", "float"}
ShortTermRating(r) == PyStr(Get(r, "note_inf_1an", VStr("")))
ExternalRating(r) == PyStr(Get(r, "note_externe", VStr("")))
MaturityUnderOneYear(r) ==
    \/ In("< 1 an", Lower(PyStr(Get(r, "echeance", VStr("")))))
    \/ In("inf 1 an", Lower(PyStr(Get(r, "echeance", VStr("")))))
ShortTermClause(r) == MaturityUnderOneYear(r) /\ ShortTermRating(r) # ""

(* C8, as stated: an enterprise exposure with the group flag true and bank
   debt >= 500,000,000 gets weight 1.50 whatever its external rating and
   short-term rating. *)
C8_GroupAlways150 ==
    \A i \in Rows :
        (/\ Enterprise(df[i]) /\ GroupFlag(df[i])
         /\ HasBankDebt(df[i]) /\ df[i]["dette_banc"].n >= GroupDebtThreshold
         /\ Weighed(i))
        => weightings[i].w = 150

(* C8, amended: an enterprise exposure with the group flag true and bank
   debt >= 500,000,000, without the Bank-of-Morocco agreement flag and not
   both of maturity "<1 year" and a short-term rating, gets weight 1.50
   whatever its external rating. *)
C8_GroupBeforeRating ==
    \A i \in Rows :
        (/\ Enterprise(df[i]) /\ GroupFlag(df[i])
         /\ HasBankDebt(df[i]) /\ df[i]["dette_banc"].n >= GroupDebtThreshold
         /\ ~AgreementFlag(df[i]) /\ ~ShortTermClause(df[i])
         /\ weightings[i] # Pending)
        => weightings[i] = Ret(150)

C8_Witness ==
    \E i \in Rows :
        /\ Enterprise(df[i])
        /\ df[i]["appart_grpe"] = VBool(TRUE) /\ df[i]["dette_banc"] = VInt(600000000)
        /\ df[i]["accord_bank_maghrib"] = VBool(FALSE)
        /\ df[i]["echeance"] = VStr("< 1 an") /\ df[i]["note_inf_1an"] = VStr("")
        /\ df[i]["note_externe"] = VStr("AAA")
        /\ weightings[i] = Ret(150)

(* C9: an enterprise exposure with the group flag set but bank debt below
   500,000,000, with no short-term rating and no agreement flag, is resolved
   by the general rating table, or gets 1.00 when unrated. *)
C9_GroupNeedsDebtThreshold ==
    \A i \in Rows :
        (/\ Enterprise(df[i]) /\ GroupFlag(df[i])
         /\ HasBankDebt(df[i]) /\ df[i]["dette_banc"].n < GroupDebtThreshold
         /\ ShortTermRating(df[i]) = "" /\ ~AgreementFlag(df[i])
         /\ Weighed(i))
        => weightings[i].w =
              IF ExternalRating(df[i]) # ""
              THEN _get_rating_weighting(ExternalRating(df[i]), "general")
              ELSE 100

(* the group clause of the specification: the flag and the debt threshold *)
GroupClause(r) ==
    GroupFlag(r) /\ HasBankDebt(r) /\ r["dette_banc"].n >= GroupDebtThreshold

(* C10: the enterprise resolver takes the first clause that matches, in the
   order short-term rating under one year, agreement flag (1.00), group
   clause (1.50), external rating (general table), otherwise 1.00. *)
C10_EnterpriseClauseOrder ==
    \A i \in Rows :
        (Enterprise(df[i]) /\ Weighed(i)) =>
            weightings[i].w =
                IF ShortTermClause(df[i])
                THEN _get_rating_weighting(ShortTermRating(df[i]), "enterprise_short_term")
                ELSE IF AgreementFlag(df[i]) THEN 100
                ELSE IF GroupClause(df[i]) THEN 150
                ELSE IF ExternalRating(df[i]) # ""
                THEN _get_rating_weighting(ExternalRating(df[i]), "general")
                ELSE 100

PublicOrg(r) == SegmentOf(r) = "organisme_public"
BudgetFlag(r) == Truthy(Get(r, "remboursement_prevu_budget", VBool(FALSE)))

(* the rating code of a cell: its text in capitals, without the blanks around *)
RatingCode(v) == Strip(Upper(PyStr(v)))
StandardRating(v) == v.t = "str" /\ RatingCode(v) \in StandardRatings

(* the weight of the bucket of the general table a standard code belongs to *)
GeneralBucketWeight(code) ==
    CASE code \in {"AAA", "AA+", "AA", "AA-"} -> 20
      [] code \in {"A+", "A", "A-"} -> 50
      [] code \in {"BBB+", "BBB", "BBB-"} -> 50
      [] code \in {"BB+", "BB", "BB-"} -> 100
      [] code \in {"B+", "B", "B-"} -> 100
      [] OTHER -> 150

(* C11: _get_rating_weighting with category 'general' gives every standard
   rating code the weight of the bucket the code belongs to (0.20 for AAA to
   AA-, 0.50 for A+ to A- and BBB+ to BBB-, 1.00 for BB+ to B-, 1.50 below
   B-); it is read on the public-body exposures without the budget flag,
   whose weight is _get_rating_weighting(note_externe, 'general'). *)
C11_GeneralBucketOfStandardCode ==
    \A i \in Rows :
        (/\ PublicOrg(df[i]) /\ ~BudgetFlag(df[i])
         /\ StandardRating(df[i]["note_externe"])
         /\ weightings[i] # Pending)
        => /\ weightings[i] = Ret(_get_rating_weighting(PyStr(df[i]["note_externe"]), "general"))
           /\ weightings[i] = Ret(GeneralBucketWeight(RatingCode(df[i]["note_externe"])))

RatingSegments ==
    {"souverain", "organisme_public", "bmd", "etablissement_credit", "entreprise"}

(* a rating text that is present and matches no bucket: it is not blank and
   no standard rating code occurs in it *)
MatchesNoBucket(v) ==
    /\ v.t = "str" /\ RatingCode(v) # ""
    /\ \A c \in StandardRatings : ~In(c, RatingCode(v))

(* the same exposure without its external rating *)
WithoutRating(r) == [r EXCEPT !["note_externe"] = Absent]

(* C12: in each rating-based segment an exposure whose external rating is
   present but matches no rating bucket gets the weight that the same
   exposure gets with a missing rating; the resolver raises nothing for it,
   and returns 0 for it only where the exposure without a rating gets 0. *)
C12_GarbledRatingAsMissing ==
    \A i \in Rows :
        (/\ SegmentOf(df[i]) \in RatingSegments
         /\ MatchesNoBucket(df[i]["note_externe"])
         /\ weightings[i] # Pending)
        => /\ weightings[i].exc = ""
           /\ weightings[i] = _calculate_individual_weighting(WithoutRating(df[i]))

Distressed(r) == SegmentOf(r) = "creance_souffrance"
Balance(r) == PyFloat(Get(r, "valeur_encours_creance", VInt(0)))
Provision(r) == PyFloat(Get(r, "provision_constitue", VInt(0)))
IsNumber(x) == x.exc = "" /\ ~x.nan
Residential(r) == In("residentiel", Lower(PyStr(Get(r, "usage", VStr("")))))

(* C13: a distressed-debt exposure with a positive outstanding balance and
   ratio = provision / balance gets, for a non-residential usage, 1.50 when
   ratio < 20%, 1.00 when 20% <= ratio <= 50% and 0.50 when ratio > 50%; for
   a residential usage, 1.00 when ratio < 20% and 0.50 when ratio >= 20%. *)
C13_DistressedByProvisionRatio ==
    \A i \in Rows :
        (/\ Distressed(df[i])
         /\ IsNumber(Balance(df[i])) /\ Balance(df[i]).n > 0
         /\ IsNumber(Provision(df[i]))
         /\ weightings[i] # Pending)
        => LET b == Balance(df[i]).n
               p == Provision(df[i]).n
           IN  weightings[i] =
                  IF Residential(df[i])
                  THEN (IF 5 * p < b THEN Ret(100) ELSE Ret(50))
                  ELSE IF 5 * p < b THEN Ret(150)
                  ELSE IF 2 * p <= b THEN Ret(100)
                  ELSE Ret(50)

C13_Witness ==
    \E i \in Rows :
        /\ Distressed(df[i])
        /\ df[i]["valeur_encours_creance"] = VInt(1000000)
        /\ df[i]["provision_constitue"] = VInt(500000)
        /\ df[i]["usage"] = VStr("commercial")
        /\ weightings[i] = Ret(100)

(* C14: a distressed-debt exposure whose outstanding balance is 0 gets the
   maximum weight 1.50, whatever its provision (a number, a missing value or
   no value) and its usage, and no division by zero is raised. *)
C14_ZeroBalanceIsMaximum ==
    \A i \in Rows :
        (/\ Distressed(df[i])
         /\ Balance(df[i]).exc = "" /\ FEq(Balance(df[i]), 0)
         /\ Provision(df[i]).exc = ""
         /\ weightings[i] # Pending)
        => weightings[i] = Ret(150)

C14_Witness ==
    \E i \in Rows :
        /\ Distressed(df[i])
        /\ df[i]["valeur_encours_creance"] = VInt(0)
        /\ df[i]["provision_constitue"] = VInt(500000)
        /\ df[i]["usage"] = VStr("residentiel")
        /\ weightings[i] = Ret(150)

Individual(r) == SegmentOf(r) = "particulier"
Amount(r) == PyFloat(Get(r, "montant", VInt(0)))

(* C15: an individual exposure gets 1.00 when its amount is strictly greater
   than 1,000,000 and 0.75 otherwise (1,000,000 itself gives 0.75), whatever
   the mortgage-guarantee flag; the amount is what float() reads. *)
C15_IndividualThreshold ==
    \A i \in Rows :
        (Individual(df[i]) /\ Amount(df[i]).exc = "" /\ weightings[i] # Pending)
        => weightings[i] =
              IF ~Amount(df[i]).nan /\ Amount(df[i]).n > 1000000 THEN Ret(100) ELSE Ret(75)

C15_Witness ==
    \E i \in Rows :
        /\ Individual(df[i])
        /\ df[i]["montant"] = VInt(1000000)
        /\ df[i]["garanti_hypotheque"] = VBool(TRUE)
        /\ weightings[i] = Ret(75)

(* the same exposure with its segment in lower case, without the blanks
   around it *)
NormalizedSegment(r) == [r EXCEPT !["segment"] = VStr(Lower(Strip(r["segment"].s)))]

(* C16: segment dispatch is insensitive to letter case and to leading or
   trailing whitespace of the segment string: an exposure gets the weight of
   the same exposure with the segment in lower case and stripped. *)
C16_SegmentCaseAndSpaceInsensitive ==
    \A i \in Rows :
        (df[i]["segment"].t = "str" /\ weightings[i] # Pending)
        => weightings[i] = _calculate_individual_weighting(NormalizedSegment(df[i]))

(* C17: when the total exposure of the portfolio is 0 the average weight
   returned by calculate_rwa is 0, and so is the average weight of each
   segment whose summed exposure is 0; no average is a division by zero. *)
C17_ZeroExposureAverageIsZero ==
    Calculated =>
        LET res == rwa_results.value
        IN  /\ res.average_weighting.den # 0
            /\ res.total_exposure = 0 => res.average_weighting.num = 0
            /\ \A k \in 1..Len(res.counterparty_analysis) :
                  LET seg == res.counterparty_analysis[k][2]
                  IN  /\ seg.avg_weighting.den # 0
                      /\ seg.total_exposure = 0 => seg.avg_weighting.num = 0

C17_Witness ==
    /\ Calculated /\ Len(df) = 2
    /\ rwa_results.value.total_exposure = 1500000
    /\ \E k \in 1..Len(rwa_results.value.counterparty_analysis) :
          LET seg == rwa_results.value.counterparty_analysis[k][2]
          IN  seg.count = 1 /\ seg.total_exposure = 0 /\ seg.avg_weighting.num = 0

(* the rows of d at the positions S, in their order *)
Shard(d, S) ==
    [k \in 1..Cardinality(S) |-> d[CHOOSE i \in S : Cardinality({j \in S : j <= i}) = k]]

(* the splits of the rows in two shards with at least one row each; the
   first shard is the one that holds row 1 *)
Splits == {S \in SUBSET Rows : 1 \in S /\ S # Rows}

SegmentKeys(res) ==
    {res.counterparty_analysis[k][1] : k \in 1..Len(res.counterparty_analysis)}

(* the entry of a segment in a breakdown, zero where the segment is not there *)
SegmentPart(res, key) ==
    IF key \in SegmentKeys(res)
    THEN res.counterparty_analysis[
            CHOOSE k \in 1..Len(res.counterparty_analysis) :
                res.counterparty_analysis[k][1] = key][2]
    ELSE [count |-> 0, total_exposure |-> 0, total_rwa |-> 0,
          avg_weighting |-> [num |-> 0, den |-> 1]]

(* the per-segment counts and sums of two results added *)
MergedBreakdown(a, b) ==
    {<<key, SegmentPart(a, key).count + SegmentPart(b, key).count,
       SegmentPart(a, key).total_exposure + SegmentPart(b, key).total_exposure,
       SegmentPart(a, key).total_rwa + SegmentPart(b, key).total_rwa>> :
        key \in SegmentKeys(a) \cup SegmentKeys(b)}

MergeEqual(whole, a, b) ==
    /\ a.exc = "" /\ b.exc = ""
    /\ a.value.total_exposure + b.value.total_exposure = whole.total_exposure
    /\ a.value.total_rwa + b.value.total_rwa = whole.total_rwa
    /\ MergedBreakdown(a.value, b.value) = Breakdown(whole)

(* C18: for every split of the exposures in two disjoint shards of at least
   one row, adding the aggregates of calculate_rwa on each shard (total
   exposure, total RWA, and per-segment count, exposure and RWA) gives the
   aggregates of calculate_rwa on the whole sequence. *)
C18_ShardsAddUp ==
    Calculated =>
        \A S \in Splits :
            MergeEqual(rwa_results.value,
                       calculate_rwa(Shard(df, S)), calculate_rwa(Shard(df, Rows \ S)))

C18_Witness ==
    /\ Calculated /\ Len(df) = 3
    /\ df[1]["segment"] = VStr("tpe") /\ df[3]["segment"] = VStr("tpe")
    /\ df[2]["segment"] = VStr("particulier")
    /\ df[1] # df[3]
    /\ rwa_results.value.total_rwa = 150000000 + 75000
    /\ \E k \in 1..Len(rwa_results.value.counterparty_analysis) :
          rwa_results.value.counterparty_analysis[k][2].count = 2

(* the weight of the sovereign bucket a standard code belongs to *)
SovereignBucketWeight(code) ==
    CASE code \in {"AAA", "AA+", "AA", "AA-"} -> 0
      [] code \in {"A+", "A", "A-"} -> 20
      [] code \in {"BBB+", "BBB", "BBB-"} -> 50
      [] code \in {"BB+", "BB", "BB-", "B+", "B", "B-"} -> 100
      [] OTHER -> 150

(* C19: a sovereign exposure that matches no 0% clause and carries a
   standard external rating gets 0 for AAA to AA-, 0.20 for A+ to A-, 0.50
   for BBB+ to BBB-, 1.00 for BB+ to B- and 1.50 below B-, whatever its PMAE
   class: the PMAE class is not consulted when the rating resolves to a
   bucket. *)
C19_SovereignBucketOfStandardCode ==
    \A i \in Rows :
        (/\ Sovereign(df[i]) /\ ~ZeroClause(df[i])
         /\ StandardRating(df[i]["note_externe"])
         /\ weightings[i] # Pending)
        => weightings[i] = Ret(SovereignBucketWeight(RatingCode(df[i]["note_externe"])))

C19_Witness ==
    \E i \in Rows :
        /\ Sovereign(df[i]) /\ ~ZeroClause(df[i])
        /\ df[i]["note_externe"] = VStr("BB+") /\ df[i]["note_pmae"] = VStr("0")
        /\ weightings[i] = Ret(100)

PmaeClasses == <<"0", "1", "2", "3", "4", "5", "6", "7">>

(* the cell holds a PMAE class, as an integer or as text *)
HasPmaeClass(v) ==
    \/ v.t = "int" /\ v.n \in 0..7
    \/ v.t = "str" /\ \E k \in 0..7 : Strip(v.s) = PmaeClasses[k + 1]

PmaeClass(v) ==
    IF v.t = "int" THEN v.n ELSE (CHOOSE k \in 0..7 : Strip(v.s) = PmaeClasses[k + 1])

PmaeClassWeight(k) ==
    CASE k \in {0, 1} -> 0
      [] k = 2 -> 20
      [] k = 3 -> 50
      [] k \in {4, 5, 6} -> 100
      [] OTHER -> 150

(* C20: a sovereign exposure that matches no 0% clause and has no external
   rating gets the weight of its PMAE class: 0 for classes 0 and 1, 0.20 for
   2, 0.50 for 3, 1.00 for 4 to 6 and 1.50 for 7, whether the class is an
   integer or text. *)
C20_PmaeClassWeight ==
    \A i \in Rows :
        (/\ Sovereign(df[i]) /\ ~ZeroClause(df[i])
         /\ MissingRating(df[i]["note_externe"])
         /\ HasPmaeClass(df[i]["note_pmae"])
         /\ weightings[i] # Pending)
        => weightings[i] = Ret(PmaeClassWeight(PmaeClass(df[i]["note_pmae"])))

(* C21: a public-body exposure with the budget-guaranteed reimbursement flag
   set gets 0.20 whatever its rating; without the flag, one with a standard
   external rating gets the weight of the bucket of the general table the
   rating belongs to, and one without an external rating gets 0.50. *)
C21_PublicBodyClauses ==
    \A i \in Rows :
        (PublicOrg(df[i]) /\ weightings[i] # Pending)
        => IF BudgetFlag(df[i]) THEN weightings[i] = Ret(20)
           ELSE IF StandardRating(df[i]["note_externe"])
           THEN weightings[i] = Ret(GeneralBucketWeight(RatingCode(df[i]["note_externe"])))
           ELSE MissingRating(df[i]["note_externe"]) => weightings[i] = Ret(50)

Bmd(r) == SegmentOf(r) = "bmd"

(* C22: a multilateral-development-bank exposure with the Bank Al-Maghrib
   flag set gets 0 whatever its rating; without the flag it gets 0.20 for
   AAA to AA-, 0.50 for A+ to A- and BBB+ to BBB-, 1.00 for BB+ to B-, 1.50
   below B-, and 0.50 when it has no rating. *)
C22_BmdClauses ==
    \A i \in Rows :
        (Bmd(df[i]) /\ weightings[i] # Pending)
        => IF AgreementFlag(df[i]) THEN weightings[i] = Ret(0)
           ELSE IF StandardRating(df[i]["note_externe"])
           THEN weightings[i] = Ret(GeneralBucketWeight(RatingCode(df[i]["note_externe"])))
           ELSE MissingRating(df[i]["note_externe"]) => weightings[i] = Ret(50)

C22_Witness ==
    \E i \in Rows :
        /\ Bmd(df[i]) /\ ~AgreementFlag(df[i])
        /\ df[i]["note_externe"] = VStr("B-") /\ weightings[i] = Ret(100)

CreditInstitution(r) == SegmentOf(r) = "etablissement_credit"

(* the initial maturity of the exposure reads '# 3 mois' or '< 3 mois' *)
MaturityUnderThreeMonths(r) ==
    LET echeance_initiale == Lower(PyStr(Get(r, "echeance_initiale", VStr(""))))
    IN  In("# 3 mois", echeance_initiale) \/ In("< 3 mois", echeance_initiale)

(* the carve-out of the exposures of at most three months in dirhams *)
CarveOut(r) == MaturityUnderThreeMonths(r) /\ Currency(r) = "MAD"

(* C23: a credit-institution exposure of at most three months in dirhams
   gets the fixed weight 0.20, whether or not it has an external rating. *)
C23_CarveOutWhateverRating ==
    \A i \in Rows :
        (CreditInstitution(df[i]) /\ CarveOut(df[i]) /\ weightings[i] # Pending)
        => weightings[i] = Ret(20)

(* C24: a credit-institution exposure with no external rating and no
   short-term rating, outside the carve-out (of at most three months in a
   foreign currency, or with no maturity information), gets the unrated
   default 0.50. *)
C24_UnratedCreditInstitutionDefault ==
    \A i \in Rows :
        (/\ CreditInstitution(df[i]) /\ ~CarveOut(df[i])
         /\ MissingRating(df[i]["note_externe"])
         /\ MissingRating(df[i]["note_inf_1an"])
         /\ weightings[i] # Pending)
        => weightings[i] = Ret(50)

Loan(r) == SegmentOf(r) = "pret"
Usage(r) == Lower(PyStr(Get(r, "usage", VStr(""))))
ResidentialUsage(r) == In("residentiel", Usage(r)) \/ In("habitation", Usage(r))
CommercialUsage(r) == In("commercial", Usage(r)) \/ In("professionnel", Usage(r))
LeasePurchase(r) == In("bail", Usage(r)) \/ In("location", Usage(r))
MortgageGuarantee(r) == Truthy(Get(r, "garanti_hypotheque", VBool(FALSE)))
StateConvention(r) == Truthy(Get(r, "convention_etat", VBool(FALSE)))
AssetValue(r) == PyFloat(Get(r, "valeur_bien_hypotheque", VInt(0)))

(* amount / mortgaged-asset value <= 80%, both positive *)
LoanToValueAtMost80(r) ==
    /\ FGt(AssetValue(r), 0) /\ FGt(Amount(r), 0)
    /\ 5 * Amount(r).n <= 4 * AssetValue(r).n

(* C25: for a real-estate loan whose amount and mortgaged-asset value are
   numbers the first matching clause decides: residential usage gives 0.35,
   commercial usage with a mortgage guarantee 1.00, commercial usage via
   lease-purchase 0.50, a state-convention loan with amount / value <= 80%
   (80% included) 0.75, and every other case 0.35. *)
C25_LoanClauses ==
    \A i \in Rows :
        (/\ Loan(df[i]) /\ AssetValue(df[i]).exc = "" /\ Amount(df[i]).exc = ""
         /\ weightings[i] # Pending)
        => weightings[i] =
              IF ResidentialUsage(df[i]) THEN Ret(35)
              ELSE IF CommercialUsage(df[i]) /\ MortgageGuarantee(df[i]) THEN Ret(100)
              ELSE IF CommercialUsage(df[i]) /\ LeasePurchase(df[i]) THEN Ret(50)
              ELSE IF StateConvention(df[i]) /\ LoanToValueAtMost80(df[i]) THEN Ret(75)
              ELSE Ret(35)

C25_Witness ==
    \E i \in Rows :
        /\ Loan(df[i]) /\ df[i]["usage"] = VStr("autre")
        /\ df[i]["convention_etat"] = VBool(TRUE)
        /\ df[i]["montant"] = VInt(1000000)
        /\ df[i]["valeur_bien_hypotheque"] = VInt(1250000)
        /\ weightings[i] = Ret(75)

(* the explanation names the clause: it begins with the text of the clause *)
Names(regle, clause) == Len(regle) >= Len(clause) /\ SubSeq(regle, 1, Len(clause)) = clause

(* the clause of each resolver that returns the weight *)
SovereignBucketMatches(r) ==
    \E c \in StandardRatings : In(c, RatingCode(Get(r, "note_externe", VStr(""))))
SovereignDomesticDecides(r) ==
    /\ In("maroc", SubSegment(r)) \/ In("bam", SubSegment(r))
       \/ In("bank al-maghrib", SubSegment(r))
    /\ Currency(r) = "MAD"
SovereignPmaeDecides(r) ==
    /\ ~ZeroClause(r) /\ ~SovereignBucketMatches(r)
    /\ Strip(PyStr(Get(r, "note_pmae", VStr("")))) # ""
CreditShortTermDecides(r) ==
    LET echeance_initiale == Lower(PyStr(Get(r, "echeance_initiale", VStr(""))))
    IN  /\ In("< 1 an", echeance_initiale) \/ In("inf 1 an", echeance_initiale)
        /\ ShortTermRating(r) # ""
EnterpriseAgreementDecides(r) == ~ShortTermClause(r) /\ AgreementFlag(r)
EnterpriseGroupDecides(r) == ~ShortTermClause(r) /\ ~AgreementFlag(r) /\ GroupFlag(r)
LoanGuaranteeDecides(r) ==
    ~ResidentialUsage(r) /\ CommercialUsage(r) /\ MortgageGuarantee(r)

(* C26: in every result row the clause named in the explanation is the
   clause of the segment resolver that returned the weight: an enterprise
   explanation names the group clause (or the agreement) only when that
   clause decided the weight, a sovereign explanation names the PMAE class
   (or the Moroccan State) only when the weight was resolved from it, and the
   same for the budget flag, the listed bank, the short-term rating of a
   credit institution and the usage of a loan. *)
C26_ExplanationNamesDecidingClause ==
    Calculated =>
        \A i \in Rows :
            LET r == df[i]
                regle == ResultRow(i).regle
            IN  /\ Names(regle, "Etat marocain/BAM en MAD") => SovereignDomesticDecides(r)
                /\ Names(regle, "Etat etranger PMAE") => SovereignPmaeDecides(r)
                /\ Names(regle, "Organisme public (remboursement budget)") => BudgetFlag(r)
                /\ Names(regle, "BMD listee Bank Al-Maghrib") => AgreementFlag(r)
                /\ Names(regle, "Etablissement credit court terme")
                      => CreditShortTermDecides(r)
                /\ Names(regle, "Entreprise de groupe") => EnterpriseGroupDecides(r)
                /\ Names(regle, "Entreprise accord BAM") => EnterpriseAgreementDecides(r)
                /\ Names(regle, "Pret immobilier residentiel") => ResidentialUsage(r)
                /\ Names(regle, "Pret commercial garanti") => LoanGuaranteeDecides(r)

(* what calculate_rwa computes for an exposure: its weight, RWA and
   explanation *)
Computed(row) == <<row.ponderation, row.rwa, row.regle>>

(* calculate_rwa on the exposure alone *)
Alone(r) == calculate_rwa(<<r>>)

(* C27, the results: the weight, RWA and explanation of each exposure of a
   batch are those calculate_rwa gives the exposure alone and in every other
   order of the batch, the weight is the one _calculate_individual_weighting
   gives the row outside calculate_rwa, and the rating and PMAE tables are
   the ones built by __init__ *)
SameResultAnywhere ==
    /\ rating_weights = _initialize_rating_weights
    /\ pmae_weights = _initialize_pmae_weights
    /\ Calculated =>
          /\ \A i \in Rows :
                /\ Alone(df[i]).exc = ""
                /\ Computed(Alone(df[i]).value.results_df[1]) = Computed(ResultRow(i))
                /\ weightings[i] # Pending => weightings[i] = Ret(ResultRow(i).ponderation)
          /\ \A p \in Orders(Len(df)) :
                LET other == calculate_rwa([i \in Rows |-> df[p[i]]])
                IN  /\ other.exc = ""
                    /\ \A i \in Rows :
                          Computed(other.value.results_df[i]) = Computed(ResultRow(p[i]))

(* C27, the calls: a call repeated returns what the call before returned,
   and no call changes the tables *)
SameResultAgain ==
    /\ rwa_results.exc # "pending" => rwa_results' = rwa_results
    /\ (\E i \in Rows : weightings[i] # Pending) => weightings' = weightings
    /\ rating_weights' = rating_weights /\ pmae_weights' = pmae_weights

(* C27: the weight, RWA and explanation computed for an exposure depend only
   on its own fields and the static tables: the rows of a batch in any
   order, the exposure alone or inside a batch, and calculate_rwa repeated
   any number of times all give the exposure the same result, and no call
   changes the rating or PMAE tables. *)
C27_ResultDependsOnRowOnly == []SameResultAnywhere /\ [][SameResultAgain]_vars

C27_Witness ==
    /\ Calculated /\ Len(df) = 3
    /\ df[1]["segment"] = VStr("tpe") /\ df[2]["segment"] = VStr("particulier")
    /\ df[3]["segment"] = VStr("souverain")
    /\ weightings[2] = Ret(100) /\ ResultRow(2).ponderation = 100
    /\ ResultRow(1).ponderation = 75 /\ ResultRow(3).ponderation = 0

(* C28: in every result of calculate_rwa the per-segment breakdown
   partitions the portfolio: the per-segment counts add up to the number of
   exposures, and the per-segment total exposure and total RWA add up to the
   portfolio totals, also when the segment of a row is missing or null. *)
C28_BreakdownPartitionsPortfolio ==
    Calculated =>
        LET res == rwa_results.value
            keys == 1..Len(res.counterparty_analysis)
            count == [k \in keys |-> res.counterparty_analysis[k][2].count]
            exposure == [k \in keys |-> res.counterparty_analysis[k][2].total_exposure]
            rwa == [k \in keys |-> res.counterparty_analysis[k][2].total_rwa]
        IN  /\ SumOver(keys, count) = Len(df)
            /\ SumOver(keys, exposure) = res.total_exposure
            /\ SumOver(keys, rwa) = res.total_rwa

(* C29: calculate_rwa on an empty sequence of exposures raises nothing and
   returns total exposure 0, total RWA 0, average weight 0 and an empty
   per-segment breakdown. *)
C29_EmptyPortfolioIsZero ==
    (Len(df) = 0 /\ rwa_results.exc # "pending")
    => /\ rwa_results.exc = ""
       /\ rwa_results.value.total_exposure = 0
       /\ rwa_results.value.total_rwa = 0
       /\ rwa_results.value.average_weighting.num = 0
       /\ rwa_results.value.counterparty_analysis = <<>>

-----------------------------------------------------------------------------
(* The application session, app.py.  Each action is one run of the script:
   the button that was clicked, then the page that is rendered. *)

(* DataValidator.clean_dataframe, on the columns of the model; a cell of a
   text column that is no str becomes missing *)
CleanTextCell(v, lower) ==
    IF v.t = "str" THEN VStr(Strip(IF lower THEN Lower(v.s) ELSE Upper(v.s))) ELSE NaN

CleanBooleanCell(v) ==
    CASE v.t = "bool" -> v
      [] v.t = "int" /\ v.n \in {0, 1} -> VBool(v.n = 1)
      [] v.t = "str" /\ v.s \in {"True", "true", "oui", "Oui"} -> VBool(TRUE)
      [] OTHER -> VBool(FALSE)

CleanNumericCell(v) ==
    IF v.t \in {"int", "float"} THEN v
    ELSE IF v.t = "bool" THEN VInt(v.n)
    ELSE IF v.t = "str" /\ IsDigits(Strip(v.s)) THEN VInt(DigitsVal(Strip(v.s)))
    ELSE VFloat(0)

CleanCell(f, v) ==
    CASE v.t = "absent" -> v
      [] f = "segment" -> CleanTextCell(v, TRUE)
      [] f \in {"note_externe", "note_pmae"} -> CleanRatingCell(v)
      [] f = "monnaie" -> CleanTextCell(v, FALSE)
      [] f \in {"accord_bank_maghrib", "appart_grpe", "garanti_hypotheque",
                "convention_etat"} -> CleanBooleanCell(v)
      [] f \in {"montant", "dette_banc", "valeur_encours_creance",
                "provision_constitue"} -> CleanNumericCell(v)
      [] OTHER -> v

clean_dataframe(d) == [i \in 1..Len(d) |-> [f \in Fields |-> CleanCell(f, d[i][f])]]

(* the files a user uploads: one or two rows with the columns segment,
   sous_segment, monnaie and montant *)
FileRows ==
    {Col4(VStr("tpe"), VStr("PME"), VStr("MAD"), VInt(1000)),
     Col4(VStr("TPE "), NaN, VStr("mad"), VStr("3000")),
     Col4(VStr("particulier"), NaN, VStr("MAD"), VInt(1500000)),
     Col4(VStr("Souverain"), VStr("Maroc"), VStr("mad"), VInt(2000000))}

MaxFileRows == 2

Files == UNION {[1..n -> FileRows] : n \in 1..MaxFileRows}

(* what reading and validating the file gives: an exception before line 280,
   critical errors, or none *)
Verdicts == {"exception", "errors", "no errors"}

(* show_upload_page with a file in the uploader, lines 264 to 321: the data
   are stored, cleaned when validation finds no critical error *)
UploadFile ==
    /\ page = "upload"
    /\ \E file \in Files, verdict \in Verdicts :
          IF verdict = "exception"
          THEN UNCHANGED <<data, validation_results>>
          ELSE /\ data' = Data(IF verdict = "errors" THEN file ELSE clean_dataframe(file))
               /\ validation_results' = verdict
    /\ shown' = NoSessionResults
    /\ UNCHANGED <<page, session_rwa_results>>
    /\ UNCHANGED <<df, weightings, rwa_results, rating_weights, pmae_weights>>

(* button nav_upload, lines 214-215, then show_upload_page with no file *)
NavUpload ==
    /\ page' = "upload"
    /\ shown' = NoSessionResults
    /\ UNCHANGED <<data, validation_results, session_rwa_results>>
    /\ UNCHANGED <<df, weightings, rwa_results, rating_weights, pmae_weights>>

(* button nav_analysis, lines 218-219 (and the button of lines 311-313), then
   show_analysis_page *)
NavAnalysis ==
    /\ ~data.none
    /\ page' = "analysis"
    /\ shown' = NoSessionResults
    /\ UNCHANGED <<data, validation_results, session_rwa_results>>
    /\ UNCHANGED <<df, weightings, rwa_results, rating_weights, pmae_weights>>

(* button nav_rwa, lines 222-223 (and the buttons of lines 316-318 and
   421-423), then show_rwa_page, lines 425 to 441: the RWA are calculated if
   the session holds no results, and the results of the session are
   displayed.  An exception of calculate_rwa ends the run. *)
NavRwa ==
    /\ ~data.none
    /\ page' = "rwa"
    /\ IF session_rwa_results.none
       THEN /\ df' = data.df
            /\ weightings' = [i \in 1..Len(data.df) |-> Pending]
            /\ rwa_results' = calculate_rwa(data.df)
            /\ session_rwa_results' =
                  IF rwa_results'.exc = "" THEN SessionResults(rwa_results'.value)
                  ELSE session_rwa_results
       ELSE UNCHANGED <<df, weightings, rwa_results, session_rwa_results>>
    /\ shown' = session_rwa_results'
    /\ UNCHANGED <<data, validation_results, rating_weights, pmae_weights>>

(* button nav_reports, lines 226-227 (and the button of lines 619-621), then
   show_reports_page, lines 623 to 696: the results of the session are what
   the report and the CSV export hold *)
NavReports ==
    /\ ~session_rwa_results.none
    /\ page' = "reports"
    /\ shown' = session_rwa_results
    /\ UNCHANGED <<data, validation_results, session_rwa_results>>
    /\ UNCHANGED <<df, weightings, rwa_results, rating_weights, pmae_weights>>

SessionInit ==
    /\ SessionStart
    /\ df = <<>>
    /\ weightings = <<>>
    /\ rwa_results = [exc |-> "pending", value |-> NoResults]
    /\ rating_weights = _initialize_rating_weights
    /\ pmae_weights = _initialize_pmae_weights

SessionNext == UploadFile \/ NavUpload \/ NavAnalysis \/ NavRwa \/ NavReports

SessionSpec == SessionInit /\ [][SessionNext]_vars

(* C30: in the application session, after any sequence of uploads, page
   navigations and calculations, the RWA results that are displayed or
   exported are the ones calculate_rwa gives for the data set the session
   holds: once a new file has been uploaded, results computed from a file
   uploaded before are never shown. *)
C30_ShownResultsAreOfCurrentData ==
    ~shown.none =>
        /\ ~data.none
        /\ calculate_rwa(data.df).exc = ""
        /\ shown.value = calculate_rwa(data.df).value
=============================================================================
